---- MODULE Spec2Model ----
(***************************************************************************)
(* EnhancedPostTable (src/app/ReusableComponents/Tables/Table.tsx): the    *)
(* state slots of the component, its event handlers, the page fetch and    *)
(* the collection endpoint it talks to.                                    *)
(*                                                                         *)
(* Encoding of JavaScript values:                                          *)
(*   - a string is a sequence of one-character strings, so that            *)
(*     toUpperCase and parseInt are computed character by character;       *)
(*   - a record (Post) is a sequence of <<key, value>> pairs in the        *)
(*     object's own key order (what Object.keys iterates);                 *)
(*   - a decoded JSON body is tagged: [kind |-> "array", items |-> rows],  *)
(*     [kind |-> "object", ...] or [kind |-> "null", ...];                 *)
(*   - null for sortColumn is the empty sequence (no column key is empty); *)
(*   - NaN is the number -1: no count and no page count the endpoint's     *)
(*     header texts denote is negative.                                    *)
(***************************************************************************)
EXTENDS Integers, Sequences, FiniteSets, TLC

\* ---------------------------------------------------------------- bounds

\* Largest number of records the collection endpoint holds.
MaxTotal == 3

\* Largest number of fetches outstanding at once that the model follows.
MaxInFlight == 2

\* Largest collection and largest page size of the fetches whose page count
\* is computed for a wide range of counts.
MaxCount == 101

MaxPageSize == 10

\* Largest index a drop event carries where drops are not confined to the
\* column list.
MaxIndex == 3

\* ------------------------------------------------------------- JS values

Null == <<>>

NaN == -1

KeyId == <<"i", "d">>

KeyTitle == <<"t", "i", "t", "l", "e">>

KeyBody == <<"b", "o", "d", "y">>

\* String.prototype.toUpperCase on one character.
UpperChar(c) ==
    CASE c = "i" -> "I"
      [] c = "d" -> "D"
      [] c = "t" -> "T"
      [] c = "l" -> "L"
      [] c = "e" -> "E"
      [] OTHER -> c

\* key.toUpperCase()
ToUpperCase(s) == [i \in 1..Len(s) |-> UpperChar(s[i])]

Digits == <<"0", "1", "2", "3", "4", "5", "6", "7", "8", "9">>

IsDigit(c) == \E d \in 1..10 : Digits[d] = c

DigitVal(c) == (CHOOSE d \in 1..10 : Digits[d] = c) - 1

\* Decimal text of a natural number: what the endpoint writes in the header.
RECURSIVE ToDecimal(_)
ToDecimal(n) ==
    IF n < 10 THEN <<Digits[n + 1]>>
    ELSE Append(ToDecimal(n \div 10), Digits[(n % 10) + 1])

\* Value of the leading run of decimal digits of s, given the value acc of
\* the digits read so far.
RECURSIVE ParseDigits(_, _)
ParseDigits(s, acc) ==
    IF s = <<>> \/ ~IsDigit(Head(s)) THEN acc
    ELSE ParseDigits(Tail(s), acc * 10 + DigitVal(Head(s)))

\* parseInt(s, 10): the value of the leading digits, NaN when s starts with
\* no digit.
ParseInt(s) ==
    IF s = <<>> \/ ~IsDigit(Head(s)) THEN NaN ELSE ParseDigits(s, 0)

\* headers.get("x-total-count") || "0": null and "" are both falsy.
OrZero(h) == IF h = Null THEN <<"0">> ELSE h

\* A variant of MathCeilDiv that rounds down.
MathFloorDiv(a, b) == IF a = NaN THEN NaN ELSE a \div b

\* Math.ceil(a / b) for a >= 0 or NaN, b > 0.
MathCeilDiv(a, b) == IF a = NaN THEN NaN ELSE (a + b - 1) \div b

MathMin(a, b) == IF a < b THEN a ELSE b

MathMax(a, b) == IF a > b THEN a ELSE b

\* --------------------------------------------------------------- state

VARIABLES
    phase,          \* "constructed" (useState done), "mounted", "crashed"
    isFilter,       \* props, fixed for the component's lifetime
    isSort,
    isPagination,
    columnToogle,
    pagePerRecord,
    totalCount,     \* the endpoint: number of records in the collection
    countHeader,    \* the endpoint: its x-total-count header, Null if none
    hasBody,        \* the endpoint: whether its records have a body field
    results,        \* useState slots
    currentPage,
    totalPages,
    titleFilter,
    bodyFilter,
    sortColumn,
    sortDirection,
    columns,
    isLoading,
    inFlight        \* per page number, the fetchResults calls awaiting fetch()

props == <<isFilter, isSort, isPagination, columnToogle, pagePerRecord>>

endpoint == <<totalCount, countHeader, hasBody>>

vars == <<phase, isFilter, isSort, isPagination, columnToogle, pagePerRecord,
          totalCount, countHeader, hasBody, results, currentPage, totalPages, titleFilter,
          bodyFilter, sortColumn, sortDirection, columns, isLoading, inFlight>>

\* ------------------------------------------------------------- records

\* Object.keys(post): the keys in the object's own order.
ObjectKeys(post) == [i \in 1..Len(post) |-> post[i][1]]

\* post[key]; every record of the collection carries every key.
Get(post, key) == post[CHOOSE i \in 1..Len(post) : post[i][1] = key][2]

\* The i-th record of the collection. Titles are not in id order, every
\* third record lists id and title in the other order, and the records of
\* some collections have a body field as well.
Post(i) ==
    (IF i % 3 = 0
     THEN << <<KeyTitle, (2 * i) % 3>>, <<KeyId, i>> >>
     ELSE << <<KeyId, i>>, <<KeyTitle, (2 * i) % 3>> >>)
    \o (IF hasBody THEN << <<KeyBody, i % 2>> >> ELSE <<>>)

JsonArray(items) == [kind |-> "array", items |-> items]

JsonObject == [kind |-> "object", items |-> <<>>]

JsonNull == [kind |-> "null", items |-> <<>>]

\* GET <apiEndpoint>?_page=<page>&_limit=<limit>: the slice of the
\* collection the endpoint returns for a page.
ServerPage(page, limit, total) ==
    LET lo == (page - 1) * limit + 1
        hi == MathMin(page * limit, total)
    IN  IF page < 1 \/ lo > hi THEN <<>>
        ELSE [i \in 1..(hi - lo + 1) |-> Post(lo + i - 1)]

\* Page numbers a request can carry: currentPage stays within 0..totalPages.
Pages == 0..MaxTotal

\* No fetch outstanding.
NoFetch == [page \in Pages |-> 0]

\* Number of outstanding fetches for the pages up to n.
RECURSIVE CountTo(_, _)
CountTo(f, n) == IF n < 0 THEN 0 ELSE f[n] + CountTo(f, n - 1)

\* Number of outstanding fetches.
Count(f) == CountTo(f, MaxTotal)

\* Page sizes the component is mounted with.
PageSizes == {2}

\* Texts typed into the two filter inputs.
FilterTexts == {<<>>, <<"a">>}

\* Lines 59-67: the initial values given to useState.
Init ==
    /\ phase = "constructed"
    /\ isFilter \in BOOLEAN
    /\ isSort \in BOOLEAN
    /\ isPagination \in BOOLEAN
    /\ columnToogle \in BOOLEAN
    /\ pagePerRecord \in PageSizes
    /\ totalCount \in 0..MaxTotal
    /\ countHeader \in {Null, ToDecimal(totalCount)}
    /\ hasBody = FALSE
    /\ results = JsonArray(<<>>)
    /\ currentPage = 1
    /\ totalPages = 0
    /\ titleFilter = <<>>
    /\ bodyFilter = <<>>
    /\ sortColumn = Null
    /\ sortDirection = "asc"
    /\ columns = <<>>
    /\ isLoading = FALSE
    /\ inFlight = NoFetch

\* ------------------------------------------------------------- fetching

\* Room for k more outstanding fetches within the model's bound.
CanStart(k) == Count(inFlight) + k <= MaxInFlight

\* fetchResults(page) up to its first await: the request is outstanding.
Started(f, page) == [f EXCEPT ![page] = @ + 1]

\* useEffect(() => fetchResults(currentPage), [currentPage, pagePerRecord]):
\* the outstanding fetches after a render in which currentPage went from
\* before to after (pagePerRecord never changes).
AfterEffect(f, before, after) ==
    IF after # before THEN Started(f, after) ELSE f

\* The first run of the effect, after the first render.
Mount ==
    /\ phase = "constructed"
    /\ phase' = "mounted"
    /\ isLoading' = TRUE
    /\ inFlight' = Started(inFlight, currentPage)
    /\ UNCHANGED <<props, endpoint, results, currentPage, totalPages,
                   titleFilter, bodyFilter, sortColumn, sortDirection, columns>>

\* What the endpoint can answer to the request for a page: fetch() rejects,
\* response.json() rejects, or a body is decoded. A decoded body is the
\* page's array of records with the endpoint's x-total-count header, or a
\* JSON value that is no array (an error object, null) with no header.
Responses(page) ==
    {[settled |-> "rejected", data |-> JsonNull, header |-> Null],
     [settled |-> "undecodable", data |-> JsonNull, header |-> Null],
     [settled |-> "decoded", data |-> JsonObject, header |-> Null],
     [settled |-> "decoded", data |-> JsonNull, header |-> Null]}
    \cup
    {[settled |-> "decoded",
      data |-> JsonArray(ServerPage(page, pagePerRecord, totalCount)),
      header |-> countHeader]}

\* Lines 84-90: Object.keys(data[0]).map(key => ({key, label, visible})).
DeriveColumns(post) ==
    [i \in 1..Len(post) |->
        [key |-> ObjectKeys(post)[i],
         label |-> ToUpperCase(ObjectKeys(post)[i]),
         visible |-> TRUE]]

\* Lines 81-82.
TotalPagesOf(header, limit) == MathCeilDiv(ParseInt(OrZero(header)), limit)

\* A variant of ColumnsAfter that derives the columns only while there are
\* none, keeping the user's order and visibility afterwards.
ColumnsAfterKeepExisting(data, cols) ==
    IF data.kind = "array" /\ Len(data.items) > 0 /\ cols = <<>>
    THEN DeriveColumns(data.items[1])
    ELSE cols

\* Lines 83-91: the columns after a decoded body. data.length is undefined
\* for an object (undefined > 0 is false) and throws for null (caught).
ColumnsAfter(data, cols) ==
    IF data.kind = "array" /\ Len(data.items) > 0
    THEN DeriveColumns(data.items[1])
    ELSE cols

\* The render that follows: results.map throws unless results is an array,
\* and with pagination Array(Math.min(5, totalPages)) throws for NaN; the
\* component is then torn down.
PhaseAfterRender(res, total) ==
    IF res.kind = "array" /\ ~(isPagination /\ total = NaN)
    THEN "mounted"
    ELSE "crashed"

\* A variant of FetchSettle that clears isLoading at the end of the try
\* block instead of in finally.
FetchSettleNoFinally(page, r) ==
    /\ phase = "mounted"
    /\ inFlight[page] > 0
    /\ r \in Responses(page)
    /\ inFlight' = [inFlight EXCEPT ![page] = @ - 1]
    /\ IF r.settled = "decoded"
       THEN /\ results' = r.data
            /\ totalPages' = TotalPagesOf(r.header, pagePerRecord)
            /\ columns' = ColumnsAfter(r.data, columns)
            /\ phase' = PhaseAfterRender(r.data, totalPages')
       ELSE UNCHANGED <<results, totalPages, columns, phase>>
    /\ isLoading' = IF r.settled = "decoded" /\ r.data.kind # "null"
                    THEN FALSE
                    ELSE isLoading
    /\ UNCHANGED <<props, endpoint, currentPage, titleFilter, bodyFilter,
                   sortColumn, sortDirection>>

\* Lines 75-96, from the first await on, for one outstanding fetch.
FetchSettle(page, r) ==
    /\ phase = "mounted"
    /\ inFlight[page] > 0
    /\ r \in Responses(page)
    /\ inFlight' = [inFlight EXCEPT ![page] = @ - 1]
    /\ IF r.settled = "decoded"
       THEN /\ results' = r.data
            /\ totalPages' = TotalPagesOf(r.header, pagePerRecord)
            /\ columns' = ColumnsAfter(r.data, columns)
            /\ phase' = PhaseAfterRender(r.data, totalPages')
       ELSE UNCHANGED <<results, totalPages, columns, phase>>
    /\ isLoading' = FALSE
    /\ UNCHANGED <<props, endpoint, currentPage, titleFilter, bodyFilter,
                   sortColumn, sortDirection>>

\* -------------------------------------------------------------- sorting

\* Lines 110-112: the comparator, reading sortDirection as dir.
Compare(a, b, column, dir) ==
    IF Get(a, column) < Get(b, column) THEN (IF dir = "asc" THEN -1 ELSE 1)
    ELSE IF Get(a, column) > Get(b, column) THEN (IF dir = "asc" THEN 1 ELSE -1)
    ELSE 0

\* A variant of InsertSorted that puts x in the place of the element it
\* should go in front of.
InsertSortedOver(s, x, column, dir) ==
    LET k == Cardinality({i \in 1..Len(s) : Compare(s[i], x, column, dir) <= 0})
    IN  SubSeq(s, 1, k) \o <<x>> \o SubSeq(s, k + 2, Len(s))

\* x put into the sorted sequence s behind every element that does not
\* compare greater than it.
InsertSorted(s, x, column, dir) ==
    LET k == Cardinality({i \in 1..Len(s) : Compare(s[i], x, column, dir) <= 0})
    IN  SubSeq(s, 1, k) \o <<x>> \o SubSeq(s, k + 1, Len(s))

\* [...items].sort(comparator): Array.prototype.sort is stable.
RECURSIVE SortBy(_, _, _)
SortBy(items, column, dir) ==
    IF Len(items) <= 1 THEN items
    ELSE InsertSorted(SortBy(SubSeq(items, 1, Len(items) - 1), column, dir),
                      items[Len(items)], column, dir)

\* Line 100.
SortAllowed == isSort

\* A variant of SortDirectionAfter that flips the direction whichever column
\* is clicked.
SortDirectionAfterAlwaysFlip(sc, sd, column) ==
    IF sd = "asc" THEN "desc" ELSE "asc"

\* Lines 102-107: the direction handleSort(column) stores.
SortDirectionAfter(sc, sd, column) ==
    IF sc = column THEN (IF sd = "asc" THEN "desc" ELSE "asc") ELSE "asc"

\* Lines 102-107: the column handleSort(column) leaves active.
SortColumnAfter(sc, column) == IF sc = column THEN sc ELSE column

\* Lines 109-114: the rows handleSort(column) stores. The comparator closes
\* over the sortDirection of the render the click happened in.
SortedResults(res, column, sd) == JsonArray(SortBy(res.items, column, sd))

\* Keys of the header cells on screen (lines 215-218).
VisibleKeys == {columns[i].key : i \in {j \in 1..Len(columns) : columns[j].visible}}

\* Lines 99-115.
handleSort(column) ==
    /\ phase = "mounted"
    /\ column \in VisibleKeys
    /\ IF SortAllowed
       THEN /\ sortColumn' = SortColumnAfter(sortColumn, column)
            /\ sortDirection' = SortDirectionAfter(sortColumn, sortDirection, column)
            /\ results' = SortedResults(results, column, sortDirection)
       ELSE UNCHANGED <<sortColumn, sortDirection, results>>
    /\ UNCHANGED <<phase, props, endpoint, currentPage, totalPages,
                   titleFilter, bodyFilter, columns, isLoading, inFlight>>

\* -------------------------------------------------------------- columns

\* Line 118, and the second half of line 134.
ColumnToggleAllowed == columnToogle

\* Lines 120-124.
ToggledColumns(cols, key) ==
    [i \in 1..Len(cols) |->
        IF cols[i].key = key THEN [cols[i] EXCEPT !.visible = ~@] ELSE cols[i]]

\* Lines 117-125.
toggleColumnVisibility(key) ==
    /\ phase = "mounted"
    /\ key \in {columns[i].key : i \in 1..Len(columns)}
    /\ IF ColumnToggleAllowed
       THEN columns' = ToggledColumns(columns, key)
       ELSE UNCHANGED columns
    /\ UNCHANGED <<phase, props, endpoint, results, currentPage, totalPages,
                   titleFilter, bodyFilter, sortColumn, sortDirection,
                   isLoading, inFlight>>

\* Array.prototype.splice: the 0-based position a start argument denotes in
\* an array of length len.
SpliceStart(start, len) ==
    IF start < 0 THEN MathMax(len + start, 0) ELSE MathMin(start, len)

\* arr after arr.splice(start, 1).
SpliceOut(arr, start) ==
    LET k == SpliceStart(start, Len(arr))
    IN  IF k < Len(arr)
        THEN SubSeq(arr, 1, k) \o SubSeq(arr, k + 2, Len(arr))
        ELSE arr

\* arr after arr.splice(start, 0, item).
SpliceIn(arr, start, item) ==
    LET k == SpliceStart(start, Len(arr))
    IN  SubSeq(arr, 1, k) \o <<item>> \o SubSeq(arr, k + 1, Len(arr))

\* The entry that stands for undefined in an array of columns.
Undefined == [key |-> Null, label |-> Null, visible |-> FALSE]

\* A variant of MovedColumns that exchanges the two columns.
SwappedColumns(cols, source, destination) ==
    LET from == SpliceStart(source, Len(cols)) + 1
        to == SpliceStart(destination, Len(cols)) + 1
    IN  IF from <= Len(cols) /\ to <= Len(cols)
        THEN [cols EXCEPT ![from] = cols[to], ![to] = cols[from]]
        ELSE cols

\* Lines 136-138: splice(source, 1) hands out the removed column, or
\* undefined when it removes nothing.
MovedColumns(cols, source, destination) ==
    LET k == SpliceStart(source, Len(cols))
        reorderedColumn == IF k < Len(cols) THEN cols[k + 1] ELSE Undefined
    IN  SpliceIn(SpliceOut(cols, source), destination, reorderedColumn)

\* The render after a reorder: columns.filter(col => col.visible) throws on
\* an undefined entry, and the component is torn down.
PhaseAfterColumns(cols) ==
    IF \E i \in 1..Len(cols) : cols[i] = Undefined THEN "crashed" ELSE phase

\* Lines 133-141, for a drop event that reports the index of the dragged
\* item and, unless there is no destination, the index of the slot it was
\* dropped on. A drag starts on a column of the list.
onDragEnd(hasDestination, source, destination) ==
    /\ phase = "mounted"
    /\ Len(columns) > 0
    /\ IF hasDestination /\ ColumnToggleAllowed
       THEN columns' = MovedColumns(columns, source, destination)
       ELSE UNCHANGED columns
    /\ phase' = PhaseAfterColumns(columns')
    /\ UNCHANGED <<props, endpoint, results, currentPage, totalPages,
                   titleFilter, bodyFilter, sortColumn, sortDirection,
                   isLoading, inFlight>>

\* --------------------------------------------------------------- filter

\* A variant of FilterAllowed without the capability check.
FilterAllowedUnchecked == TRUE

\* Line 128.
FilterAllowed == isFilter

\* Lines 127-131, and the effect of the render that follows: fetchResults(1)
\* is called by the handler, and once more by the effect when currentPage
\* was not 1.
applyFilter ==
    /\ phase = "mounted"
    /\ IF FilterAllowed
       THEN /\ CanStart(IF currentPage # 1 THEN 2 ELSE 1)
            /\ currentPage' = 1
            /\ isLoading' = TRUE
            /\ inFlight' = AfterEffect(Started(inFlight, 1), currentPage, 1)
       ELSE UNCHANGED <<currentPage, isLoading, inFlight>>
    /\ UNCHANGED <<phase, props, endpoint, results, totalPages, titleFilter,
                   bodyFilter, sortColumn, sortDirection, columns>>

\* A variant of setTitleFilter that filters as the user types: it fetches
\* the current page again on every edit.
setTitleFilterLive(text) ==
    /\ phase = "mounted"
    /\ isFilter
    /\ text # titleFilter
    /\ titleFilter' = text
    /\ CanStart(1)
    /\ isLoading' = TRUE
    /\ inFlight' = Started(inFlight, currentPage)
    /\ UNCHANGED <<phase, props, endpoint, results, currentPage, totalPages,
                   bodyFilter, sortColumn, sortDirection, columns>>

\* Line 155; the input is rendered when isFilter (line 149).
setTitleFilter(text) ==
    /\ phase = "mounted"
    /\ isFilter
    /\ text # titleFilter
    /\ titleFilter' = text
    /\ UNCHANGED <<phase, props, endpoint, results, currentPage, totalPages,
                   bodyFilter, sortColumn, sortDirection, columns, isLoading,
                   inFlight>>

\* Line 162.
setBodyFilter(text) ==
    /\ phase = "mounted"
    /\ isFilter
    /\ text # bodyFilter
    /\ bodyFilter' = text
    /\ UNCHANGED <<phase, props, endpoint, results, currentPage, totalPages,
                   titleFilter, sortColumn, sortDirection, columns, isLoading,
                   inFlight>>

\* ----------------------------------------------------------- pagination

\* Line 249.
PreviousDisabled == currentPage = 1 \/ isLoading

\* Line 273.
NextDisabled == currentPage = totalPages \/ isLoading

\* Line 263.
PageButtonDisabled == isLoading

\* Lines 255-257: the page numbers that get a button.
PageButtons ==
    {pageNumber \in {currentPage - 2 + index :
                        index \in 0..(MathMin(5, totalPages) - 1)} :
        pageNumber > 0 /\ pageNumber <= totalPages}

\* Line 248: setCurrentPage(prev => Math.max(prev - 1, 1)).
PreviousPage(prev) == MathMax(prev - 1, 1)

\* Line 272: setCurrentPage(prev => Math.min(prev + 1, totalPages)).
NextPage(prev, total) == MathMin(prev + 1, total)

\* A click that sets currentPage to page, and the effect of the render that
\* follows (lines 69-71).
GoTo(page) ==
    /\ phase = "mounted"
    /\ isPagination
    /\ currentPage' = page
    /\ IF page # currentPage
       THEN /\ CanStart(1)
            /\ isLoading' = TRUE
            /\ inFlight' = AfterEffect(inFlight, currentPage, page)
       ELSE UNCHANGED <<isLoading, inFlight>>
    /\ UNCHANGED <<phase, props, endpoint, results, totalPages, titleFilter,
                   bodyFilter, sortColumn, sortDirection, columns>>

\* Lines 247-254.
previous ==
    /\ ~PreviousDisabled
    /\ GoTo(PreviousPage(currentPage))

\* Lines 259-266.
pageClick(pageNumber) ==
    /\ pageNumber \in PageButtons
    /\ ~PageButtonDisabled
    /\ GoTo(pageNumber)

\* Lines 271-278.
next ==
    /\ ~NextDisabled
    /\ GoTo(NextPage(currentPage, totalPages))

\* ------------------------------------------------------- specification

Next ==
    \/ Mount
    \/ \E page \in Pages : \E r \in Responses(page) : FetchSettle(page, r)
    \/ \E column \in {KeyId, KeyTitle} : handleSort(column)
    \/ \E key \in {KeyId, KeyTitle} : toggleColumnVisibility(key)
    \/ \E h \in BOOLEAN : \E s, d \in 0..(Len(columns) - 1) : onDragEnd(h, s, d)
    \/ applyFilter
    \/ \E text \in FilterTexts : setTitleFilter(text)
    \/ \E text \in FilterTexts : setBodyFilter(text)
    \/ previous
    \/ \E pageNumber \in Pages : pageClick(pageNumber)
    \/ next

Spec == Init /\ [][Next]_vars

\* Every request in flight resolves or fails in the end: the settling of
\* the fetches for a page does not stay possible forever without happening.
RequestsSettle ==
    \A page \in Pages :
        WF_vars(\E r \in Responses(page) : FetchSettle(page, r))

\* The component with sorting and the column list switched off: neither
\* handler reads or writes isLoading or the fetches.
InitFair == Init /\ ~isSort /\ ~columnToogle

SpecFair == InitFair /\ [][Next]_vars /\ RequestsSettle

\* ------------------------------------- the page count over many counts

\* Header texts an endpoint can send that are no decimal number.
NoNumbers == {<<"a", "b", "c">>, <<"7", "x">>}

\* The component over endpoints with collections of up to MaxCount records,
\* page sizes up to MaxPageSize, and an x-total-count header that is absent,
\* the count, or no number.
InitCounts ==
    /\ phase = "constructed"
    /\ isFilter = TRUE
    /\ isSort = FALSE
    /\ isPagination \in BOOLEAN
    /\ columnToogle = FALSE
    /\ pagePerRecord \in 1..MaxPageSize
    /\ totalCount \in 0..MaxCount
    /\ countHeader \in {Null, ToDecimal(totalCount)} \cup NoNumbers
    /\ hasBody = FALSE
    /\ results = JsonArray(<<>>)
    /\ currentPage = 1
    /\ totalPages = 0
    /\ titleFilter = <<>>
    /\ bodyFilter = <<>>
    /\ sortColumn = Null
    /\ sortDirection = "asc"
    /\ columns = <<>>
    /\ isLoading = FALSE
    /\ inFlight = NoFetch

\* The first page is fetched on mount and again on every Apply Filter.
NextCounts ==
    \/ Mount
    \/ \E r \in Responses(1) : FetchSettle(1, r)
    \/ applyFilter

SpecCounts == InitCounts /\ [][NextCounts]_vars

\* --------------------------------------------- the column list under drops

\* The component with only the column list in use, over endpoints whose
\* records have two or three fields.
InitDrops ==
    /\ phase = "constructed"
    /\ isFilter = FALSE
    /\ isSort = FALSE
    /\ isPagination = FALSE
    /\ columnToogle \in BOOLEAN
    /\ pagePerRecord \in PageSizes
    /\ totalCount \in 0..MaxTotal
    /\ countHeader \in {Null, ToDecimal(totalCount)}
    /\ hasBody \in BOOLEAN
    /\ results = JsonArray(<<>>)
    /\ currentPage = 1
    /\ totalPages = 0
    /\ titleFilter = <<>>
    /\ bodyFilter = <<>>
    /\ sortColumn = Null
    /\ sortDirection = "asc"
    /\ columns = <<>>
    /\ isLoading = FALSE
    /\ inFlight = NoFetch

\* Indices a drop event can carry: DropResult types them as number.
DropIndices == (0 - 1)..MaxIndex

\* Drop events carry any index, inside the column list or outside of it.
NextDrops ==
    \/ Mount
    \/ \E r \in Responses(1) : FetchSettle(1, r)
    \/ \E key \in {KeyId, KeyTitle, KeyBody} : toggleColumnVisibility(key)
    \/ \E h \in BOOLEAN : \E s, d \in DropIndices : onDragEnd(h, s, d)

SpecDrops == InitDrops /\ [][NextDrops]_vars

\* ---------------------------------------------------------------- claims

Keys == {KeyId, KeyTitle}

\* A step of one of the three pagination controls.
NavigationStep == previous \/ next \/ \E pageNumber \in Pages : pageClick(pageNumber)

\* The outstanding fetches of which one settles in this step.
Outstanding == {page \in Pages : inFlight[page] > 0}

\* A step that takes one fetch for page out of the outstanding ones: only a
\* settling fetch does.
SettledIn(page) == inFlight' = [inFlight EXCEPT ![page] = @ - 1]

\* A step in which the fetch for page settles with response r.
Settles(page, r) == FetchSettle(page, r)

\* The response is a failure: transport, or a body that is no array of records.
IsFailure(r) == r.settled # "decoded" \/ r.data.kind # "array"

\* items is ordered by the value at column in direction dir.
IsOrdered(items, column, dir) ==
    \A i, j \in 1..Len(items) :
        i < j =>
            IF dir = "asc"
            THEN Get(items[i], column) <= Get(items[j], column)
            ELSE Get(items[i], column) >= Get(items[j], column)

\* C1: no step of previous, next or a page-number button sets currentPage
\* outside 1..totalPages.
C1_NavigationStaysInRange ==
    [][NavigationStep => (1 <= currentPage' /\ currentPage' <= totalPages')]_vars

\* C2: the step that settles a failed fetch leaves results and columns as
\* they were and leaves loading false.
C2_FailedFetchKeepsDisplay ==
    [][\A page \in Outstanding : SettledIn(page) => \A r \in Responses(page) :
          (Settles(page, r) /\ IsFailure(r)) =>
              (results' = results /\ columns' = columns /\ isLoading' = FALSE)]_vars

\* C3: with sort enabled, after handleSort(column) the rows are ordered by
\* column in the direction the sort state then holds.
C3_RowsFollowSortState ==
    [][\A column \in Keys :
          (isSort /\ handleSort(column)) =>
              IsOrdered(results'.items, column, sortDirection')]_vars

\* C4: with sort enabled, handleSort on the active column keeps the column
\* and flips the direction; on another column it makes that column the
\* active one with direction asc.
C4_SortStateToggle ==
    [][\A column \in Keys :
          (isSort /\ handleSort(column)) =>
              /\ sortColumn' = column
              /\ sortColumn = column =>
                    /\ sortDirection' # sortDirection
                    /\ sortDirection' \in {"asc", "desc"}
              /\ sortColumn # column => sortDirection' = "asc"]_vars

\* C4 happens: a column was clicked twice in a row.
C4_Witness ==
    /\ isSort
    /\ sortColumn = KeyTitle
    /\ sortDirection = "desc"

\* The label the claim expects for a key.
ExpectedLabel(key) ==
    IF key = KeyId THEN <<"I", "D">> ELSE <<"T", "I", "T", "L", "E">>

\* C5: a fetch that decodes an array with a first record leaves exactly that
\* record's field names as the columns, in its order, all visible, labelled
\* in upper case; one that decodes an empty array leaves columns as it was.
C5_ColumnsRederived ==
    [][\A page \in Outstanding : SettledIn(page) => \A r \in Responses(page) :
          (Settles(page, r) /\ ~IsFailure(r)) =>
              IF r.data.items # <<>>
              THEN /\ Len(columns') = Len(r.data.items[1])
                   /\ \A i \in 1..Len(columns') :
                         /\ columns'[i].key = r.data.items[1][i][1]
                         /\ columns'[i].label = ExpectedLabel(columns'[i].key)
                         /\ columns'[i].visible
              ELSE columns' = columns]_vars

\* C5 happens: the page whose first record lists title before id is on
\* screen with the columns in that order.
C5_Witness ==
    /\ phase = "mounted"
    /\ inFlight = NoFetch
    /\ results.items # <<>>
    /\ results.items[1][1][1] = KeyTitle
    /\ Len(columns) = 2
    /\ columns[1].key = KeyTitle
    /\ columns[1].visible /\ columns[2].visible

\* C6: a handler whose capability flag is false changes nothing.
C6_DisabledHandlersAreNoOps ==
    [][/\ \A key \in Keys :
             (~columnToogle /\ toggleColumnVisibility(key)) => UNCHANGED vars
       /\ \A h \in BOOLEAN : \A s, d \in 0..1 :
             (~columnToogle /\ onDragEnd(h, s, d)) => UNCHANGED vars
       /\ \A column \in Keys :
             (~isSort /\ handleSort(column)) => UNCHANGED vars
       /\ (~isFilter /\ applyFilter) => UNCHANGED vars]_vars

\* C6 happens: every flag is off while rows and headers are on screen, so
\* each of the four handlers can be invoked.
C6_Witness ==
    /\ phase = "mounted"
    /\ ~isSort /\ ~isFilter /\ ~columnToogle
    /\ Len(results.items) = 2
    /\ VisibleKeys = Keys
    /\ ENABLED applyFilter
    /\ ENABLED handleSort(KeyTitle)
    /\ ENABLED toggleColumnVisibility(KeyId)
    /\ ENABLED onDragEnd(TRUE, 0, 1)

\* C7: loading is true exactly while a fetch is outstanding.
C7_LoadingIffInFlight ==
    phase = "mounted" => (isLoading <=> inFlight # NoFetch)

\* C8: at most one fetch is outstanding.
C8_NoOverlappingFetches == Count(inFlight) <= 1

\* C9: when a successful fetch settles and none is left outstanding, the
\* rows and columns on screen are those of the page currentPage names
\* (stated for currentPage >= 1, the pages the endpoint numbers).
C9_NoStaleOverwrite ==
    [][\A page \in Outstanding : SettledIn(page) => \A r \in Responses(page) :
          (/\ Settles(page, r)
           /\ ~IsFailure(r)
           /\ inFlight' = NoFetch
           /\ currentPage' >= 1) =>
              /\ results'.items = ServerPage(currentPage', pagePerRecord, totalCount)
              /\ results'.items # <<>> =>
                    columns' = DeriveColumns(results'.items[1])]_vars

\* C10: previous is disabled when loading or currentPage - 1 < 1, next when
\* loading or currentPage + 1 > totalPages, every page button when loading.
C10_ControlsDisabledOutOfRange ==
    (phase = "mounted" /\ isPagination) =>
        /\ (isLoading \/ currentPage - 1 < 1) => PreviousDisabled
        /\ (isLoading \/ currentPage + 1 > totalPages) => NextDisabled
        /\ isLoading => PageButtonDisabled

\* The fetch of the first page settles in this step with the page's records.
FirstPageArrives ==
    /\ SettledIn(1)
    /\ \E r \in Responses(1) : Settles(1, r) /\ ~IsFailure(r)

\* k is the ceiling of n / size: the least number of pages of size records
\* that hold n records.
IsCeiling(k, n, size) == k * size >= n /\ (k - 1) * size < n

\* C11: after every successful fetch whose x-total-count header reports the
\* count n >= 0, totalPages is the ceiling of n / pagePerRecord and is not
\* negative: 0 records in pages of 10 give 0 pages, 1 gives 1, 100 give 10,
\* 101 give 11, and 25 records give 3 pages and 10 rows on page 1.
C11_TotalPagesIsCeiling ==
    [][(FirstPageArrives /\ countHeader = ToDecimal(totalCount)) =>
          /\ IsCeiling(totalPages', totalCount, pagePerRecord)
          /\ totalPages' >= 0
          /\ pagePerRecord = 10 =>
                /\ totalCount = 0 => totalPages' = 0
                /\ totalCount = 1 => totalPages' = 1
                /\ totalCount = 100 => totalPages' = 10
                /\ totalCount = 101 => totalPages' = 11
                /\ totalCount = 25 =>
                      totalPages' = 3 /\ Len(results'.items) = 10]_vars

\* 25 records in pages of 10 have been fetched: 3 pages, 10 rows.
C11_Witness ==
    /\ phase = "mounted"
    /\ totalCount = 25
    /\ pagePerRecord = 10
    /\ countHeader = ToDecimal(25)
    /\ totalPages = 3
    /\ Len(results.items) = 10
    /\ inFlight = NoFetch

\* C12: when the x-total-count header of a successful fetch is absent or is
\* no integer, the count is taken as 0 and totalPages becomes 0.
C12_BadHeaderCountsAsZero ==
    [][(FirstPageArrives /\ countHeader \in {Null} \cup NoNumbers) =>
          totalPages' = 0]_vars

\* The indices of the columns.
InBounds == 0..(Len(columns) - 1)

\* C13: with column toggling enabled, a drop whose source or destination
\* index lies outside the column list leaves the list as it was.
C13_OutOfBoundsDropIsNoOp ==
    [][\A s, d \in DropIndices :
          (/\ columnToogle
           /\ s \notin InBounds \/ d \notin InBounds
           /\ onDragEnd(TRUE, s, d)) => columns' = columns]_vars

\* seq without its entry at index i.
Without(seq, i) == SubSeq(seq, 1, i - 1) \o SubSeq(seq, i + 1, Len(seq))

\* C14: with column toggling enabled, a drop with both indices inside the
\* list puts the dragged column at the destination index and keeps all
\* other columns, unchanged, in their order; toggling the visibility of a
\* key flips the flag of the column with that key and changes nothing else
\* in the list.
C14_ReorderAndToggle ==
    [][/\ \A s, d \in InBounds :
             (columnToogle /\ onDragEnd(TRUE, s, d)) =>
                 /\ Len(columns') = Len(columns)
                 /\ columns'[d + 1] = columns[s + 1]
                 /\ Without(columns', d + 1) = Without(columns, s + 1)
       /\ \A key \in {KeyId, KeyTitle, KeyBody} :
             (columnToogle /\ toggleColumnVisibility(key)) =>
                 /\ Len(columns') = Len(columns)
                 /\ \A i \in 1..Len(columns) :
                       /\ columns'[i].key = columns[i].key
                       /\ columns'[i].label = columns[i].label
                       /\ columns'[i].visible =
                              IF columns[i].key = key
                              THEN ~columns[i].visible
                              ELSE columns[i].visible]_vars

\* C14 happens: of the three columns derived as id, title, body, the first
\* has been dropped on the last slot and one has been hidden.
C14_Witness ==
    /\ phase = "mounted"
    /\ columnToogle
    /\ Len(columns) = 3
    /\ columns[1].key = KeyTitle
    /\ columns[2].key = KeyBody
    /\ columns[3].key = KeyId
    /\ ~columns[2].visible
    /\ columns[1].visible /\ columns[3].visible

\* C15: the page numbers with a button in the pagination strip are exactly
\* the numbers from currentPage - 2 to currentPage + 2 that lie within
\* 1..totalPages.
C15_PageWindow ==
    (phase = "mounted" /\ isPagination) =>
        PageButtons = {p \in (currentPage - 2)..(currentPage + 2) :
                          1 <= p /\ p <= totalPages}

\* C16: mount, and every step that changes currentPage, starts exactly one
\* fetch, for the (new) current page; a fetch that succeeds stores the
\* received records in received order and leaves sortColumn and
\* sortDirection as they were.
C16_OneFetchPerPageChange ==
    [][/\ Mount => inFlight' = Started(inFlight, currentPage)
       /\ (currentPage >= 1 /\ currentPage' # currentPage) =>
             inFlight' = Started(inFlight, currentPage')
       /\ \A page \in Outstanding : SettledIn(page) =>
             \A r \in Responses(page) :
                 (Settles(page, r) /\ ~IsFailure(r)) =>
                     /\ results' = r.data
                     /\ UNCHANGED <<sortColumn, sortDirection>>]_vars

\* C17: editing the title or the body filter text changes that text only
\* and starts no fetch; Apply Filter with filtering enabled sets currentPage
\* to 1 and starts a fetch for page 1, keeps both texts, and the records a
\* fetch brings are the endpoint's page for the page number and page size,
\* whatever the texts are.
C17_FilterOnlyOnApply ==
    [][/\ \A text \in FilterTexts :
             setTitleFilter(text) =>
                 /\ titleFilter' = text
                 /\ UNCHANGED <<phase, props, endpoint, results, currentPage,
                                totalPages, bodyFilter, sortColumn,
                                sortDirection, columns, isLoading, inFlight>>
       /\ \A text \in FilterTexts :
             setBodyFilter(text) =>
                 /\ bodyFilter' = text
                 /\ UNCHANGED <<phase, props, endpoint, results, currentPage,
                                totalPages, titleFilter, sortColumn,
                                sortDirection, columns, isLoading, inFlight>>
       /\ (isFilter /\ applyFilter) =>
             /\ currentPage' = 1
             /\ inFlight'[1] > inFlight[1]
             /\ \A page \in Pages \ {1} : inFlight'[page] = inFlight[page]
             /\ UNCHANGED <<titleFilter, bodyFilter, results>>
       /\ \A page \in Outstanding : SettledIn(page) =>
             \A r \in Responses(page) :
                 (Settles(page, r) /\ ~IsFailure(r)) =>
                     results'.items = ServerPage(page, pagePerRecord, totalCount)]_vars

\* C17 happens: both texts have been typed and Apply Filter was clicked on
\* another page than the first, so two fetches for page 1 are outstanding.
C17_Witness ==
    /\ phase = "mounted"
    /\ isFilter
    /\ titleFilter = <<"a">>
    /\ bodyFilter = <<"a">>
    /\ currentPage = 1
    /\ inFlight[1] = 2
    /\ Len(results.items) = 1

\* b holds the entries of a, each as often as a does.
IsPermutation(a, b) ==
    /\ Len(a) = Len(b)
    /\ \A i \in 1..Len(a) :
          Cardinality({j \in 1..Len(a) : a[j] = a[i]})
              = Cardinality({j \in 1..Len(b) : b[j] = a[i]})

\* C18: handleSort starts no fetch, leaves currentPage, totalPages, columns,
\* the filter texts and loading unchanged, and the rows after it are a
\* permutation of the rows before it.
C18_SortIsClientSide ==
    [][\A column \in Keys :
          handleSort(column) =>
              /\ UNCHANGED <<currentPage, totalPages, columns, titleFilter,
                             bodyFilter, isLoading, inFlight>>
              /\ results'.kind = "array"
              /\ IsPermutation(results.items, results'.items)]_vars

\* C18 happens: the two rows of page 1 have been sorted by title and are no
\* longer in the order the endpoint sent them in, and nothing is loading.
C18_Witness ==
    /\ phase = "mounted"
    /\ isSort
    /\ sortColumn = KeyTitle
    /\ currentPage = 1
    /\ Len(results.items) = 2
    /\ results.items # ServerPage(1, pagePerRecord, totalCount)
    /\ IsPermutation(ServerPage(1, pagePerRecord, totalCount), results.items)
    /\ ~isLoading
    /\ inFlight = NoFetch

\* C19: when every request in flight resolves or fails in the end, loading
\* does not stay true: from every state with isLoading there follows one
\* without, whether the fetches succeed or fail; and when as many fetches
\* are outstanding as can be, one of them settles.
C19_LoadingEnds ==
    /\ isLoading ~> ~isLoading
    /\ (Count(inFlight) = MaxInFlight) ~> (Count(inFlight) < MaxInFlight)

\* C19 happens: a fetch has failed (the collection has records, none is on
\* screen and totalPages is still 0) and loading is false again.
C19_Witness ==
    /\ phase = "mounted"
    /\ totalCount > 0
    /\ countHeader # Null
    /\ results.items = <<>>
    /\ totalPages = 0
    /\ currentPage = 1
    /\ inFlight = NoFetch
    /\ ~isLoading

\* C20: with pagination enabled and 1 <= currentPage <= totalPages, the
\* current page number is one of the page numbers that have a button in the
\* pagination strip.
C20_CurrentPageHasButton ==
    (/\ phase = "mounted"
     /\ isPagination
     /\ 1 <= currentPage
     /\ currentPage <= totalPages) => currentPage \in PageButtons

====
